---- MODULE Spec2Model ----
(***************************************************************************)
(* arg_input (src/src/lib.rs): input() / input_lines() resolve an ordered  *)
(* sequence of path arguments to readable handles with attempt_map, chain  *)
(* the handles into one stream with chain_all_reads, and (input_lines)     *)
(* wrap the stream in a BufReader whose lines() are iterated.              *)
(*                                                                         *)
(* The environment is static while the program runs: a file's contents do  *)
(* not change after it is opened and standard input is a finite stream     *)
(* whose end-of-stream, once reported, is reported again on later reads.   *)
(***************************************************************************)
EXTENDS Integers, Sequences, FiniteSets, TLC

(* ------------------------------ bounds --------------------------------- *)
MaxArgs == 3
MaxBuf == 2
MaxIdle == 2
BufCap == 2

(* --------------------------- the environment --------------------------- *)
\* A path is a sequence of units; "xFF" is a unit that is not valid Unicode.
Dash == <<"-">>
FileA == <<"A">>
FileB == <<"B">>
FileC == <<"C">>
FileE == <<"E">>
MissingZ == <<"Z">>
MissingY == <<"Y", "xFF">>

Paths == {Dash, FileA, FileB, FileC, FileE, MissingZ, MissingY}

\* Paths File::open succeeds on. A file literally named "-" exists too.
ExistingFiles == {Dash, FileA, FileB, FileC, FileE}

Contents(p) ==
  CASE p = FileA -> <<"A", "\n">>
    [] p = FileB -> <<"B", "\r", "\n">>
    [] p = FileC -> <<"C">>
    [] p = FileE -> <<>>
    [] p = Dash  -> <<"D", "\n">>
    [] OTHER     -> <<>>

StdinContents == <<"s", "\n">>

\* The io::Error File::open returns for a path it cannot open.
OpenError(p) == IF p = MissingY THEN "PermissionDenied" ELSE "NotFound"

Min(a, b) == IF a < b THEN a ELSE b

(* ------------------------------- state --------------------------------- *)
VARIABLES
  api,          \* "input" or "input_lines": the entry point called
  args,         \* the argument sequence (inputs.into_iter())
  pc,           \* "call", "attempt_map", "returned"
  idx,          \* attempt_map: position of the next element of the iterator
  any_failure,  \* attempt_map: any_failure
  successes,    \* attempt_map: successes
  failures,     \* attempt_map: failures
  mapped,       \* history: the elements the mapper was invoked on, in order
  opens,        \* history: the paths File::open was called with, in order
  result,       \* "none", "ok", "err": what input() returned
  badfiles,     \* InputError.badfiles of an "err" result
  reader,       \* "none", "stdin" (Box<Stdin>) or "chain" (Box<Chain<..>>)
  handles,      \* the handles the returned stream owns, in chain order
  done,         \* done[i]: done_first of the i-th Chain (wrapping handle i)
  stdinPos,     \* bytes consumed from the process's standard input
  calls,        \* history: calls[i] = read calls made on handle i
  drawn,        \* history: drawn[i] = bytes handle i has yielded
  eofSeen,      \* history: handles that returned 0 into a non-empty buffer
  out,          \* api = "input": the bytes the caller has read so far
  exhausted,    \* api = "input": a read into a non-empty buffer returned 0
  idle,         \* reads / next() calls that yielded nothing, so far
  bufr,         \* api = "input_lines": BufReader's unconsumed bytes
  lines,        \* api = "input_lines": the lines yielded so far
  linesDone     \* api = "input_lines": next() has returned None

vars == <<api, args, pc, idx, any_failure, successes, failures, mapped, opens,
          result, badfiles, reader, handles, done, stdinPos, calls, drawn,
          eofSeen, out, exhausted, idle, bufr, lines, linesDone>>

resolveVars == <<idx, any_failure, successes, failures, mapped, opens>>
streamVars == <<handles, done, stdinPos, calls, drawn, eofSeen>>
consumeVars == <<out, exhausted, idle, bufr, lines, linesDone>>

RECURSIVE SeqsUpTo(_)
SeqsUpTo(n) ==
  IF n = 0 THEN {<<>>}
  ELSE LET S == SeqsUpTo(n - 1)
       IN S \cup {Append(s, p) : s \in {t \in S : Len(t) = n - 1}, p \in Paths}

Init ==
  /\ api \in {"input", "input_lines"}
  /\ args \in SeqsUpTo(MaxArgs)
  /\ pc = "call"
  /\ idx = 1
  /\ any_failure = FALSE
  /\ successes = <<>>
  /\ failures = <<>>
  /\ mapped = <<>>
  /\ opens = <<>>
  /\ result = "none"
  /\ badfiles = <<>>
  /\ reader = "none"
  /\ handles = <<>>
  /\ done = <<>>
  /\ stdinPos = 0
  /\ calls = <<>>
  /\ drawn = <<>>
  /\ eofSeen = {}
  /\ out = <<>>
  /\ exhausted = FALSE
  /\ idle = 0
  /\ bufr = <<>>
  /\ lines = <<>>
  /\ linesDone = FALSE

(* ------------------------------ from_arg ------------------------------- *)
\* Path::to_string_lossy: invalid units become U+FFFD.
ToStringLossy(p) == [i \in DOMAIN p |-> IF p[i] = "xFF" THEN "uFFFD" ELSE p[i]]

StdinHandle == [kind |-> "stdin", path |-> <<>>, pos |-> 0]
FileHandle(p) == [kind |-> "file", path |-> p, pos |-> 0]

FailReadFileError(err, p) == [inner |-> err, filename |-> ToStringLossy(p)]

\* from_arg without the "-" test: every argument is opened as a file.
FromArgNoSentinel(arg) ==
  IF arg \in ExistingFiles
  THEN [ok |-> TRUE, handle |-> FileHandle(arg), opened |-> <<arg>>]
  ELSE [ok |-> FALSE, err |-> FailReadFileError(OpenError(arg), arg),
        opened |-> <<arg>>]

\* from_arg: Ok(stdin) for "-", else File::open(arg). `opened` is the
\* File::open call made, if any.
FromArg(arg) ==
  IF ToStringLossy(arg) = <<"-">>
  THEN [ok |-> TRUE, handle |-> StdinHandle, opened |-> <<>>]
  ELSE IF arg \in ExistingFiles
       THEN [ok |-> TRUE, handle |-> FileHandle(arg), opened |-> <<arg>>]
       ELSE [ok |-> FALSE, err |-> FailReadFileError(OpenError(arg), arg),
             opened |-> <<arg>>]

(* --------------------------- chain_all_reads --------------------------- *)
\* The fold composing each handle in front of the accumulator.
ChainAllReadsReversed(reads) ==
  [hs |-> [i \in 1..Len(reads) |-> reads[Len(reads) + 1 - i]],
   dn |-> [i \in 1..Len(reads) |-> FALSE]]

\* fold(empty, |read, next| read.chain(next)): level 0 is io::empty(), level
\* i is Chain { first: level i-1, second: reads[i], done_first: false }.
ChainAllReads(reads) ==
  [hs |-> reads, dn |-> [i \in 1..Len(reads) |-> FALSE]]

(* -------------------------------- input -------------------------------- *)
\* input() without the iter.len() == 0 branch.
InputNoEmptyCase ==
  /\ pc = "call"
  /\ pc' = "attempt_map"
  /\ UNCHANGED <<api, args, result, badfiles, reader>>
  /\ UNCHANGED resolveVars
  /\ UNCHANGED streamVars
  /\ UNCHANGED consumeVars

\* input(), up to the call of attempt_map: an empty sequence returns
\* Ok(Box::new(io::stdin())) at once (input_lines then wraps it in a
\* BufReader); otherwise attempt_map starts.
Input ==
  /\ pc = "call"
  /\ IF Len(args) = 0
     THEN /\ pc' = "returned"
          /\ result' = "ok"
          /\ reader' = "stdin"
          /\ handles' = <<StdinHandle>>
          /\ done' = <<>>
          /\ calls' = <<0>>
          /\ drawn' = <<0>>
     ELSE /\ pc' = "attempt_map"
          /\ UNCHANGED <<result, reader, handles, done, calls, drawn>>
  /\ UNCHANGED <<api, args, badfiles, stdinPos, eofSeen>>
  /\ UNCHANGED resolveVars
  /\ UNCHANGED consumeVars

(* ----------------------------- attempt_map ----------------------------- *)
\* The loop body leaving the loop at the first Err (fail-fast).
AttemptMapStepFailFast ==
  /\ pc = "attempt_map"
  /\ idx <= Len(args)
  /\ LET r == FromArg(args[idx])
     IN /\ mapped' = Append(mapped, args[idx])
        /\ opens' = opens \o r.opened
        /\ IF r.ok
           THEN /\ successes' = IF ~any_failure THEN Append(successes, r.handle)
                                ELSE successes
                /\ idx' = idx + 1
                /\ UNCHANGED <<any_failure, failures>>
           ELSE /\ any_failure' = TRUE
                /\ failures' = Append(failures, r.err)
                /\ idx' = Len(args) + 1
                /\ UNCHANGED successes
  /\ UNCHANGED <<api, args, pc, result, badfiles, reader>>
  /\ UNCHANGED streamVars
  /\ UNCHANGED consumeVars

\* The loop body keeping only the first failure.
AttemptMapStepFirstFailure ==
  /\ pc = "attempt_map"
  /\ idx <= Len(args)
  /\ LET r == FromArg(args[idx])
     IN /\ mapped' = Append(mapped, args[idx])
        /\ opens' = opens \o r.opened
        /\ idx' = idx + 1
        /\ IF r.ok
           THEN /\ successes' = IF ~any_failure THEN Append(successes, r.handle)
                                ELSE successes
                /\ UNCHANGED <<any_failure, failures>>
           ELSE /\ any_failure' = TRUE
                /\ failures' = IF ~any_failure THEN Append(failures, r.err)
                               ELSE failures
                /\ UNCHANGED successes
  /\ UNCHANGED <<api, args, pc, result, badfiles, reader>>
  /\ UNCHANGED streamVars
  /\ UNCHANGED consumeVars

\* One iteration of `for obj in self { match mapper(obj) { .. } }` with
\* mapper = |path| from_arg(path.as_ref()).
AttemptMapStep ==
  /\ pc = "attempt_map"
  /\ idx <= Len(args)
  /\ LET r == FromArg(args[idx])
     IN /\ mapped' = Append(mapped, args[idx])
        /\ opens' = opens \o r.opened
        /\ idx' = idx + 1
        /\ IF r.ok
           THEN /\ successes' = IF ~any_failure THEN Append(successes, r.handle)
                                ELSE successes
                /\ UNCHANGED <<any_failure, failures>>
           ELSE /\ any_failure' = TRUE
                /\ failures' = Append(failures, r.err)
                /\ UNCHANGED successes
  /\ UNCHANGED <<api, args, pc, result, badfiles, reader>>
  /\ UNCHANGED streamVars
  /\ UNCHANGED consumeVars

\* The end of attempt_map returning the successes whenever there are some.
AttemptMapReturnAnySuccess ==
  /\ pc = "attempt_map"
  /\ idx > Len(args)
  /\ pc' = "returned"
  /\ IF successes = <<>> /\ failures # <<>>
     THEN /\ result' = "err"
          /\ badfiles' = failures
          /\ UNCHANGED <<reader, handles, done, calls, drawn>>
     ELSE LET c == ChainAllReads(successes)
          IN /\ result' = "ok"
             /\ reader' = "chain"
             /\ handles' = c.hs
             /\ done' = c.dn
             /\ calls' = [i \in 1..Len(c.hs) |-> 0]
             /\ drawn' = [i \in 1..Len(c.hs) |-> 0]
             /\ UNCHANGED badfiles
  /\ successes' = <<>>
  /\ failures' = <<>>
  /\ UNCHANGED <<api, args, idx, any_failure, mapped, opens, stdinPos, eofSeen>>
  /\ UNCHANGED consumeVars

\* The end of attempt_map and the rest of input(): Err(failures) becomes
\* InputError { badfiles } through `?` (the successes are dropped), and
\* Ok(successes) is chained by chain_all_reads.
AttemptMapReturn ==
  /\ pc = "attempt_map"
  /\ idx > Len(args)
  /\ pc' = "returned"
  /\ IF any_failure
     THEN /\ result' = "err"
          /\ badfiles' = failures
          /\ UNCHANGED <<reader, handles, done, calls, drawn>>
     ELSE LET c == ChainAllReads(successes)
          IN /\ result' = "ok"
             /\ reader' = "chain"
             /\ handles' = c.hs
             /\ done' = c.dn
             /\ calls' = [i \in 1..Len(c.hs) |-> 0]
             /\ drawn' = [i \in 1..Len(c.hs) |-> 0]
             /\ UNCHANGED badfiles
  /\ successes' = <<>>
  /\ failures' = <<>>
  /\ UNCHANGED <<api, args, idx, any_failure, mapped, opens, stdinPos, eofSeen>>
  /\ UNCHANGED consumeVars

(* ------------------------- reading the stream -------------------------- *)
\* The stream's state as one value, threaded through a read call.
World ==
  [handles |-> handles, done |-> done, stdinPos |-> stdinPos,
   calls |-> calls, drawn |-> drawn, eofSeen |-> eofSeen]

HandleSource(h) == IF h.kind = "stdin" THEN StdinContents ELSE Contents(h.path)

HandlePos(w, i) ==
  IF w.handles[i].kind = "stdin" THEN w.stdinPos ELSE w.handles[i].pos

\* Read::read of handle i (a File, or Stdin) into a buffer of n bytes: up to n
\* of the bytes left, 0 at end-of-stream. Every handle of kind "stdin" reads
\* the one standard input of the process.
HandleRead(w, i, n) ==
  LET h == w.handles[i]
      src == HandleSource(h)
      pos == HandlePos(w, i)
      k == Min(n, Len(src) - pos)
  IN [data |-> SubSeq(src, pos + 1, pos + k),
      w |-> [w EXCEPT
               !.handles[i].pos = IF h.kind = "file" THEN pos + k ELSE @,
               !.stdinPos = IF h.kind = "stdin" THEN pos + k ELSE @,
               !.calls[i] = @ + 1,
               !.drawn[i] = @ + k,
               !.eofSeen = IF k = 0 /\ n > 0 THEN @ \cup {i} ELSE @]]

\* Chain::read advancing to the second reader after every read of the first.
RECURSIVE LevelReadAdvancing(_, _, _)
LevelReadAdvancing(w, lvl, n) ==
  IF lvl = 0 THEN [data |-> <<>>, w |-> w]
  ELSE IF ~w.done[lvl]
       THEN LET r == LevelReadAdvancing(w, lvl - 1, n)
            IN IF Len(r.data) = 0 /\ n # 0
               THEN HandleRead([r.w EXCEPT !.done[lvl] = TRUE], lvl, n)
               ELSE [data |-> r.data, w |-> [r.w EXCEPT !.done[lvl] = TRUE]]
       ELSE HandleRead(w, lvl, n)

\* Chain::read of level lvl, which chain_all_reads built as
\* Chain { first: level lvl-1, second: handle lvl }; level 0 is io::empty().
\*   if !done_first { match first.read(buf)? {
\*       0 if buf.len() != 0 => done_first = true, n => return Ok(n) } }
\*   second.read(buf)
RECURSIVE LevelRead(_, _, _)
LevelRead(w, lvl, n) ==
  IF lvl = 0 THEN [data |-> <<>>, w |-> w]
  ELSE IF ~w.done[lvl]
       THEN LET r == LevelRead(w, lvl - 1, n)
            IN IF Len(r.data) = 0 /\ n # 0
               THEN HandleRead([r.w EXCEPT !.done[lvl] = TRUE], lvl, n)
               ELSE r
       ELSE HandleRead(w, lvl, n)

\* A stream that starts over from its first handle once all are exhausted.
ReadStreamRewinding(w, n) ==
  LET r == IF reader = "stdin" THEN HandleRead(w, 1, n)
           ELSE LevelRead(w, Len(w.handles), n)
  IN IF Len(r.data) = 0 /\ n # 0
     THEN [data |-> <<>>,
           w |-> [r.w EXCEPT
                    !.handles = [i \in DOMAIN @ |-> [@[i] EXCEPT !.pos = 0]],
                    !.done = [i \in DOMAIN @ |-> FALSE],
                    !.stdinPos = 0]]
     ELSE r

\* read() on the Box<Read> input() returned: Stdin itself for an empty
\* argument sequence, the outermost Chain otherwise.
ReadStream(w, n) ==
  IF reader = "stdin" THEN HandleRead(w, 1, n)
  ELSE LevelRead(w, Len(w.handles), n)

SetWorld(w) ==
  /\ handles' = w.handles
  /\ done' = w.done
  /\ stdinPos' = w.stdinPos
  /\ calls' = w.calls
  /\ drawn' = w.drawn
  /\ eofSeen' = w.eofSeen

\* The caller of input() reads the stream into a buffer of n bytes.
Read ==
  /\ pc = "returned"
  /\ result = "ok"
  /\ api = "input"
  /\ \E n \in 0..MaxBuf :
       LET r == ReadStream(World, n)
       IN /\ Len(r.data) > 0 \/ idle < MaxIdle
          /\ SetWorld(r.w)
          /\ out' = out \o r.data
          /\ exhausted' = (exhausted \/ (n > 0 /\ Len(r.data) = 0))
          /\ idle' = IF Len(r.data) > 0 THEN idle ELSE idle + 1
  /\ UNCHANGED <<api, args, pc, result, badfiles, reader, bufr, lines, linesDone>>
  /\ UNCHANGED resolveVars

(* ----------------------------- input_lines ----------------------------- *)
\* Position of the first "\n" in s, 0 when there is none (memchr).
RECURSIVE FirstNewline(_, _)
FirstNewline(s, i) ==
  IF i > Len(s) THEN 0
  ELSE IF s[i] = "\n" THEN i
  ELSE FirstNewline(s, i + 1)

\* BufRead::read_until(b'\n') on the BufReader: fill_buf reads the stream
\* into the BufCap-byte buffer when the buffer is consumed; the bytes up to
\* and including the first newline are appended, or all of them and the loop
\* goes on; it ends at a newline or when fill_buf has nothing.
RECURSIVE ReadUntil(_, _, _)
ReadUntil(w, b, acc) ==
  LET r == IF b = <<>> THEN ReadStream(w, BufCap) ELSE [data |-> b, w |-> w]
      p == FirstNewline(r.data, 1)
  IN IF r.data = <<>> THEN [line |-> acc, w |-> r.w, buf |-> <<>>]
     ELSE IF p > 0
          THEN [line |-> acc \o SubSeq(r.data, 1, p), w |-> r.w,
                buf |-> SubSeq(r.data, p + 1, Len(r.data))]
          ELSE ReadUntil(r.w, <<>>, acc \o r.data)

\* Lines::next without the removal of the line terminator.
LineTextRaw(buf) == buf

\* Lines::next on the line read: a final "\n" is popped, and then a final "\r".
LineText(buf) ==
  IF Len(buf) > 0 /\ buf[Len(buf)] = "\n"
  THEN LET t == SubSeq(buf, 1, Len(buf) - 1)
       IN IF Len(t) > 0 /\ t[Len(t)] = "\r" THEN SubSeq(t, 1, Len(t) - 1) ELSE t
  ELSE buf

\* One next() on the Lines iterator input_lines() returned: read_line into a
\* fresh String; Ok(0) is None, otherwise Some(Ok(line)).
LinesNext ==
  /\ pc = "returned"
  /\ result = "ok"
  /\ api = "input_lines"
  /\ LET r == ReadUntil(World, bufr, <<>>)
     IN /\ Len(r.line) > 0 \/ idle < MaxIdle
        /\ SetWorld(r.w)
        /\ bufr' = r.buf
        /\ IF Len(r.line) = 0
           THEN /\ linesDone' = TRUE
                /\ idle' = idle + 1
                /\ UNCHANGED lines
           ELSE /\ lines' = Append(lines, LineText(r.line))
                /\ UNCHANGED <<linesDone, idle>>
  /\ UNCHANGED <<api, args, pc, result, badfiles, reader, out, exhausted>>
  /\ UNCHANGED resolveVars

(* ---------------------------- specification ---------------------------- *)
Next ==
  \/ Input
  \/ AttemptMapStep
  \/ AttemptMapReturn
  \/ Read
  \/ LinesNext

Spec == Init /\ [][Next]_vars

(* ------------------------ vocabulary of the claims --------------------- *)
\* The arguments of the environment that cannot be opened.
Unopenable == {MissingZ, MissingY}

IsUnopenable(a) == a \in Unopenable
IsFileArg(a) == a # Dash

\* The files that hold exactly one newline-terminated line, and that line.
OneLineFiles == {FileA, FileB}
LineOf(p) == IF p = FileA THEN <<"A">> ELSE <<"B">>

IsPrefix(s, t) == Len(s) <= Len(t) /\ s = SubSeq(t, 1, Len(s))

Returned == pc = "returned"

\* Every argument names an existing file (none is the sentinel).
AllFiles == args # <<>> /\ \A i \in 1..Len(args) : args[i] \in ExistingFiles \ {Dash}

RECURSIVE ConcatContents(_)
ConcatContents(s) ==
  IF s = <<>> THEN <<>> ELSE Contents(Head(s)) \o ConcatContents(Tail(s))

\* The bytes the inputs hold, in argument order: standard input is drained by
\* the first handle that reads it.
RECURSIVE InputBytes(_, _)
InputBytes(s, stdinLeft) ==
  IF s = <<>> THEN <<>>
  ELSE IF Head(s) = Dash THEN stdinLeft \o InputBytes(Tail(s), <<>>)
  ELSE Contents(Head(s)) \o InputBytes(Tail(s), stdinLeft)

AllBytes == IF args = <<>> THEN StdinContents ELSE InputBytes(args, StdinContents)

\* The newline-split of a byte sequence, each line without its terminator.
RECURSIVE SplitLines(_)
SplitLines(s) ==
  IF s = <<>> THEN <<>>
  ELSE LET p == FirstNewline(s, 1)
       IN IF p = 0 THEN <<s>>
          ELSE LET l == SubSeq(s, 1, p - 1)
                   t == IF Len(l) > 0 /\ l[Len(l)] = "\r"
                        THEN SubSeq(l, 1, Len(l) - 1) ELSE l
               IN <<t>> \o SplitLines(SubSeq(s, p + 1, Len(s)))

(* ------------------------------- claims -------------------------------- *)
\* C1: when input() / input_lines() has returned for a non-empty argument
\* sequence in which M >= 1 arguments cannot be opened, the result is an
\* error whose failure list has exactly M entries, the k-th naming the k-th
\* unopenable argument's path string (and carrying its cause), in argument
\* order, wherever the openable arguments stand.
C1_FailuresNamedInOrder ==
  LET bad == SelectSeq(args, IsUnopenable)
  IN (Returned /\ args # <<>> /\ bad # <<>>) =>
       /\ result = "err"
       /\ Len(badfiles) = Len(bad)
       /\ \A k \in 1..Len(bad) :
            /\ badfiles[k].filename = ToStringLossy(bad[k])
            /\ badfiles[k].inner = OpenError(bad[k])

C1_Witness ==
  /\ Returned
  /\ api = "input_lines"
  /\ Len(args) = 3
  /\ args[1] = MissingY /\ args[2] \in ExistingFiles /\ args[3] = MissingZ
  /\ Len(badfiles) = 2

\* C2: for a non-empty sequence of existing files, input() succeeds, what has
\* been read is always a prefix of the concatenation of the files' contents
\* in argument order, and it is the whole concatenation once a read reports
\* the end of the stream.
C2_ConcatenationInOrder ==
  (Returned /\ api = "input" /\ AllFiles) =>
     /\ result = "ok"
     /\ IsPrefix(out, ConcatContents(args))
     /\ exhausted => out = ConcatContents(args)

C2_Witness ==
  /\ Returned /\ api = "input" /\ AllFiles
  /\ args = <<FileA, FileE, FileB>>
  /\ exhausted
  /\ out = <<"A", "\n", "B", "\r", "\n">>

\* C3: for an empty argument sequence input() succeeds with the standard
\* input handle alone; the mapper was never invoked and no open was attempted.
C3_EmptyIsStdin ==
  (Returned /\ args = <<>>) =>
     /\ result = "ok"
     /\ reader = "stdin"
     /\ Len(handles) = 1 /\ handles[1].kind = "stdin"
     /\ badfiles = <<>>
     /\ mapped = <<>>
     /\ opens = <<>>
     /\ api = "input" => IsPrefix(out, StdinContents)

C3_Witness ==
  Returned /\ args = <<>> /\ api = "input" /\ out = StdinContents

\* C4: attempt_map has invoked the mapper on exactly the elements before the
\* iterator's position, once each and in order, and on every element of the
\* sequence by the time it returns, whatever the earlier outcomes.
C4_MapperOncePerElement ==
  /\ pc = "attempt_map" => (idx <= Len(args) + 1 /\ mapped = SubSeq(args, 1, idx - 1))
  /\ (Returned /\ args # <<>>) => mapped = args

C4_Witness ==
  /\ Returned
  /\ Len(args) = 3
  /\ IsUnopenable(args[1])
  /\ mapped = args

\* C5: the result of input() on a non-empty sequence is either a success
\* holding one handle per argument, in argument order, and no failure, or an
\* error with a non-empty failure list and no handle and no stream.
C5_AllOrNothing ==
  (Returned /\ args # <<>>) =>
     \/ /\ result = "ok"
        /\ reader = "chain"
        /\ badfiles = <<>>
        /\ Len(handles) = Len(args)
        /\ \A i \in 1..Len(args) :
             IF args[i] = Dash THEN handles[i].kind = "stdin"
             ELSE handles[i].kind = "file" /\ handles[i].path = args[i]
     \/ /\ result = "err"
        /\ badfiles # <<>>
        /\ reader = "none"
        /\ handles = <<>>

C5_Witness ==
  /\ Returned
  /\ result = "err"
  /\ Len(args) = 3
  /\ args[1] = FileA /\ args[2] = MissingZ /\ args[3] = FileB
  /\ handles = <<>>

\* C6: in a non-empty sequence the handle resolved for position i is the
\* standard input exactly when argument i is "-"; File::open is never called
\* with "-"; and the stream holds a standard-input handle only when the
\* sequence is empty or names "-".
C6_SentinelIsStdin ==
  /\ (pc = "attempt_map" /\ ~any_failure) =>
        \A i \in 1..Len(successes) : (successes[i].kind = "stdin") <=> (args[i] = Dash)
  /\ (Returned /\ result = "ok" /\ args # <<>>) =>
        /\ Len(handles) = Len(args)
        /\ \A i \in 1..Len(handles) : (handles[i].kind = "stdin") <=> (args[i] = Dash)
  /\ \A k \in 1..Len(opens) : opens[k] # Dash
  /\ ((\E i \in 1..Len(handles) : handles[i].kind = "stdin") \/ stdinPos > 0) =>
        (args = <<>> \/ \E i \in 1..Len(args) : args[i] = Dash)

C6_Witness ==
  /\ Returned /\ result = "ok"
  /\ args = <<FileA, Dash, FileB>>
  /\ handles[2].kind = "stdin"
  /\ opens = <<FileA, FileB>>
  /\ stdinPos = Len(StdinContents)

\* C7: once a read has reported the end of the chained stream, a further
\* read yields no byte (of any handle), the stream stays exhausted, and
\* nothing is opened or resolved again; likewise the line iterator yields
\* nothing after it has returned None.
C7_ExhaustedStaysEmpty ==
  [][ /\ exhausted =>
           /\ exhausted'
           /\ out' = out
           /\ drawn' = drawn
           /\ opens' = opens /\ mapped' = mapped
           /\ result' = "ok"
      /\ linesDone =>
           /\ linesDone'
           /\ lines' = lines
           /\ drawn' = drawn
           /\ opens' = opens /\ mapped' = mapped
           /\ result' = "ok" ]_vars

\* The last handle is an empty file: its first read exhausts the stream and
\* its second read is a read of the exhausted stream.
C7_Witness ==
  /\ exhausted
  /\ args = <<FileA, FileE>>
  /\ calls[2] = 2
  /\ out = Contents(FileA)

\* C8: for existing files that each hold one newline-terminated line,
\* input_lines() succeeds and yields one line per file, in argument order, each the
\* file's line without its terminator; in general the lines yielded are a
\* prefix of the newline-split of the inputs' bytes, and all of it once the
\* iterator has returned None.
C8_LinesOfInputs ==
  /\ (Returned /\ api = "input_lines" /\ \A i \in 1..Len(args) : args[i] \in OneLineFiles) =>
        result = "ok"
  /\ (Returned /\ api = "input_lines" /\ result = "ok") =>
     /\ IsPrefix(lines, SplitLines(AllBytes))
     /\ linesDone => lines = SplitLines(AllBytes)
     /\ (linesDone /\ args # <<>> /\ \A i \in 1..Len(args) : args[i] \in OneLineFiles) =>
           lines = [i \in 1..Len(args) |-> LineOf(args[i])]

C8_Witness ==
  /\ Returned /\ api = "input_lines" /\ linesDone
  /\ args = <<FileA, FileB, FileA>>
  /\ lines = <<<<"A">>, <<"B">>, <<"A">>>>

\* C9: in a step that reads handle i of the chain, every earlier handle has
\* reported end-of-stream and no later handle has been read before; in a
\* step that draws a byte from handle i, every earlier handle has reported
\* end-of-stream.
C9_HandlesInOrder ==
  [][ (Returned /\ reader = "chain") =>
        \A i \in 1..Len(handles) :
          /\ calls'[i] > calls[i] =>
               /\ \A j \in 1..(i - 1) : j \in eofSeen'
               /\ \A j \in (i + 1)..Len(handles) : calls[j] = 0
          /\ drawn'[i] > drawn[i] =>
               \A j \in 1..(i - 1) : j \in eofSeen' /\ done'[j + 1] ]_vars

C9_Witness ==
  /\ Returned /\ reader = "chain"
  /\ args = <<FileA, FileC, FileB>>
  /\ eofSeen = {1, 2}
  /\ drawn[3] > 0
  /\ calls[1] > 1

\* C10: nothing is read before input() has returned, and when it has
\* returned for a non-empty sequence File::open has been called once for
\* every argument that is not "-", in argument order, and for nothing else;
\* as this holds in every later state, no read opens anything.
C10_EagerResolution ==
  /\ ~Returned =>
        /\ out = <<>> /\ lines = <<>> /\ bufr = <<>>
        /\ stdinPos = 0 /\ idle = 0
        /\ \A i \in 1..Len(calls) : calls[i] = 0
  /\ (Returned /\ args # <<>>) => opens = SelectSeq(args, IsFileArg)

C10_Witness ==
  /\ Returned /\ api = "input"
  /\ args = <<FileA, FileB, FileC>>
  /\ opens = args
  /\ Len(out) = 3

====
